---- MODULE Spec2Model ----
(***************************************************************************)
(* WebSocketService of src/src/services/api.ts: one manager object that    *)
(* owns a transport handle (ws), a subscription table (listeners) and a    *)
(* reconnect counter, driven by the host's single-threaded event loop.     *)
(* Every handler of the class is a task of the event loop; a task that     *)
(* dispatches to subscribers is split at the subscriber calls, and no      *)
(* other task runs until it has finished (pc # "idle").                    *)
(***************************************************************************)
EXTENDS Integers, Sequences, FiniteSets, TLC

\* ---------------------------------------------------------------- bounds
NumSlots == 2        \* transport handles that can exist at the same time
MaxTimers == 2       \* reconnect timers that can be pending at the same time
MaxSubs == 1         \* entries of the subscription table, all events together (Spec)
MaxRouterSubs == 2   \* the same, where only the event router is exercised (SpecRouter)

\* ------------------------------------------------------ program constants
maxReconnectAttempts == 5
reconnectDelay == 1000
NoHandle == 0        \* this.ws = null

\* ------------------------------------------------------------ input sets
Slots == 1..NumSlots
Events == {"connected", "disconnected", "task_created"}   \* names on()/off() are called with
EmitEvents == Events \cup {"error", "undefined"}          \* names emit() is called with
Callbacks == {"cb1", "cb2"}
Data == {"d1"}
Messages == {"m1"}
Adapters == {"a1", "a2"}

\* Text frames the server can push.  "garbage" is no JSON text, "null" is the
\* JSON text null, "object" is a JSON object; an object without a type field
\* reads as type = "undefined" (the key JavaScript looks up for undefined).
Frames ==
  {[raw |-> "garbage", type |-> "undefined", data |-> "undefined"],
   [raw |-> "null", type |-> "undefined", data |-> "undefined"],
   [raw |-> "object", type |-> "undefined", data |-> "undefined"]}
  \cup [raw : {"object"}, type : Events, data : Data]

VARIABLES
  ws,                \* this.ws: a slot, or NoHandle
  handles,           \* slot -> state of the transport handle living there
  listeners,         \* this.listeners: event name -> array of callbacks
  reconnectAttempts, \* this.reconnectAttempts
  timers,            \* number of pending setTimeout callbacks
  pc,                \* "idle" | "dispatch" | "threw": position of the running task
  pass,              \* the running handler and its forEach pass
  invoked,           \* calls made by the running pass: <<[cb, arg], ...>>
  lastSend,          \* outcome of send() when it was the latest operation
  subscribed,        \* history: the list of each event kept by append / remove-all
  scheduled,         \* history: delays of the timers scheduled since the last open
  userDisconnected,  \* history: disconnect() was called, no external connect() since
  cleared,           \* history: disconnect() was called, no on() since
  closeIgnored,      \* history: a close was handled since the last open and scheduled nothing
  active,            \* adapters (useWebSocket instances) whose effect is mounted
  isConnected,       \* adapter -> isConnected.current
  stranded           \* history: adapters active when another adapter's cleanup ran

vars == <<ws, handles, listeners, reconnectAttempts, timers, pc,
          pass, invoked, lastSend, subscribed, scheduled, userDisconnected,
          cleared, closeIgnored, active, isConnected, stranded>>

conn == <<ws, handles>>
policy == <<reconnectAttempts, timers, scheduled>>
table == <<listeners, subscribed, cleared>>
adapters == <<active, isConnected, stranded>>

HandleStates == {"FREE", "CONNECTING", "OPEN", "CLOSING", "ERRORED", "CLOSED"}

EmptyTable == [e \in EmitEvents |-> <<>>]

\* The handler that runs was not started by a frame.
NoFrame == [raw |-> "none", type |-> "none", data |-> "none"]

NoPass ==
  [handler |-> "none", event |-> "none", data |-> "none", arr |-> <<>>,
   idx |-> 0, len |-> 0, shared |-> FALSE, atStart |-> <<>>,
   offDuring |-> FALSE, cause |-> "none", caught |-> FALSE, raw |-> "none",
   frame |-> NoFrame]

NoSend == [called |-> FALSE, msg |-> "none", wrote |-> FALSE, wire |-> <<>>]

Init ==
  /\ ws = NoHandle
  /\ handles = [s \in Slots |-> "FREE"]
  /\ listeners = EmptyTable
  /\ reconnectAttempts = 0
  /\ timers = 0
  /\ pc = "idle"
  /\ pass = NoPass
  /\ invoked = <<>>
  /\ lastSend = NoSend
  /\ subscribed = EmptyTable
  /\ scheduled = <<>>
  /\ userDisconnected = FALSE
  /\ cleared = FALSE
  /\ closeIgnored = FALSE
  /\ active = {}
  /\ isConnected = [a \in Adapters |-> FALSE]
  /\ stranded = {}

\* No task is running and no close event is queued right behind an error event.
Quiet == pc = "idle" /\ \A s \in Slots : handles[s] # "ERRORED"

\* ------------------------------------------------------- reconnect policy
\* No test at all: every call schedules a reconnect.
ShouldReconnectAlways(attempts) == TRUE

\* The test with <= in place of <: one attempt too many.
ShouldReconnectOffByOne(attempts) == attempts <= maxReconnectAttempts

\* attemptReconnect: the test of its if
ShouldReconnect(attempts) == attempts < maxReconnectAttempts

\* The delay computed from the counter as it was before the increment.
TimerDelayBeforeIncrement(attempts) == reconnectDelay * (attempts - 1)

\* attemptReconnect: the delay handed to setTimeout, read after the increment
TimerDelay(attempts) == reconnectDelay * attempts

\* attemptReconnect(), with t the number of timers pending when it is called
AttemptReconnect(t) ==
  IF ShouldReconnect(reconnectAttempts)
  THEN /\ reconnectAttempts' = reconnectAttempts + 1
       /\ timers' = t + 1
       /\ scheduled' = Append(scheduled, TimerDelay(reconnectAttempts + 1))
  ELSE /\ reconnectAttempts' = reconnectAttempts
       /\ timers' = t
       /\ scheduled' = scheduled

\* The policy can run without exceeding MaxTimers.
RoomForTimer(t) == ShouldReconnect(reconnectAttempts) => t < MaxTimers


\* disconnect() that clears the pending timers (clearTimeout).
TimersAfterDisconnectCleared(t) == 0

\* disconnect(): the pending setTimeout callbacks are not touched
TimersAfterDisconnect(t) == t

\* ------------------------------------------------------ subscription table
\* on(): this.listeners[event].push(callback), the list created when absent
ListAfterOn(list, cb) == Append(list, cb)

\* Removal of the first identical entry only (indexOf + splice).
RECURSIVE ListAfterOffFirstOnly(_, _)
ListAfterOffFirstOnly(list, cb) ==
  IF list = <<>> THEN <<>>
  ELSE IF Head(list) = cb THEN Tail(list)
       ELSE <<Head(list)>> \o ListAfterOffFirstOnly(Tail(list), cb)

\* off(): this.listeners[event].filter(cb => cb !== callback)
ListAfterOff(list, cb) == SelectSeq(list, LAMBDA x : x # cb)

\* Removal in place: the array the pass iterates loses the entries too.
IteratedAfterOffInPlace(arr, cb) == SelectSeq(arr, LAMBDA x : x # cb)

\* off() during a forEach pass over the same event: filter() builds a new array
\* and leaves the array the pass iterates as it was.
IteratedAfterOff(arr, cb) == arr

\* disconnect() that leaves the table alone.
TableAfterDisconnectKept(tbl) == tbl

\* disconnect(): this.listeners = {}
TableAfterDisconnect(tbl) == EmptyTable

RECURSIVE TotalLen(_, _)
TotalLen(tbl, es) ==
  IF es = {} THEN 0
  ELSE LET e == CHOOSE x \in es : TRUE IN Len(tbl[e]) + TotalLen(tbl, es \ {e})

TotalSubs == TotalLen(listeners, EmitEvents)

\* The list an event has after removing every entry identical to cb.
RECURSIVE RemoveAll(_, _)
RemoveAll(list, cb) ==
  IF list = <<>> THEN <<>>
  ELSE IF Head(list) = cb THEN RemoveAll(Tail(list), cb)
       ELSE <<Head(list)>> \o RemoveAll(Tail(list), cb)

OnEffect(e, cb) ==
  /\ listeners' = [listeners EXCEPT ![e] = ListAfterOn(@, cb)]
  /\ subscribed' = [subscribed EXCEPT ![e] = @ \o <<cb>>]
  /\ cleared' = FALSE

OffEffect(e, cb) ==
  /\ listeners' = [listeners EXCEPT ![e] = ListAfterOff(@, cb)]
  /\ subscribed' = [subscribed EXCEPT ![e] = RemoveAll(@, cb)]
  /\ cleared' = cleared

\* ------------------------------------------------------------- transport
\* A handle that is CLOSED and that the manager no longer references can
\* deliver no further event; its slot is free again.
Release(hs, w) ==
  IF w # NoHandle /\ hs[w] = "CLOSED" THEN [hs EXCEPT ![w] = "FREE"] ELSE hs

FreeSlots(hs) == {s \in Slots : hs[s] = "FREE"}

NewSlot(hs) == CHOOSE s \in FreeSlots(hs) : \A r \in FreeSlots(hs) : s <= r

\* ws.close() on a handle in state st
CloseHandle(st) == IF st \in {"CONNECTING", "OPEN"} THEN "CLOSING" ELSE st

\* Handles that can still deliver open or message events to the manager.
Live == {s \in Slots : handles[s] \in {"CONNECTING", "OPEN"}}

\* ------------------------------------------------------------- frames
\* JSON.parse(event.data) throws
ParseThrows(f) == f.raw = "garbage"

\* message.type throws: the parsed value is null
TypeThrows(f) == f.raw = "null"

\* A try block that ends before message.type is read.
FrameThrowsInParseOnly(f) == ParseThrows(f)

\* The try block of onmessage throws before emit is reached
FrameThrows(f) == ParseThrows(f) \/ TypeThrows(f)

\* The event name a parsed frame is emitted under
RoutedKey(f) == f.type

\* The frame's type handed to the subscribers in place of its data.
RoutedDataIsType(f) == f.type

\* The payload a parsed frame is emitted with
RoutedData(f) == f.data

\* JSON.stringify(message)
JSONstringify(m) == [json |-> m]

\* The test without the readyState check.
SendWritesAnyHandle(w, hs) == w # NoHandle

\* send(): the test of its if
SendWrites(w, hs) == w # NoHandle /\ hs[w] = "OPEN"

\* ------------------------------------------------------------- operations
\* The body of connect(), with t the timers pending when it is called;
\* fails: new WebSocket(wsUrl) throws and the catch block runs.
ConnectBody(fails, t) ==
  IF fails
  THEN /\ RoomForTimer(t)
       /\ UNCHANGED conn
       /\ AttemptReconnect(t)
  ELSE /\ FreeSlots(Release(handles, ws)) # {}
       /\ LET hs == Release(handles, ws)
              h == NewSlot(hs)
          IN /\ ws' = h
             /\ handles' = [hs EXCEPT ![h] = "CONNECTING"]
       /\ timers' = t
       /\ UNCHANGED <<reconnectAttempts, scheduled>>

\* connect() called from outside the class
Connect ==
  /\ Quiet
  /\ \E fails \in BOOLEAN : ConnectBody(fails, timers)
  /\ userDisconnected' = FALSE
  /\ lastSend' = NoSend
  /\ UNCHANGED <<table, pc, pass, invoked, closeIgnored>>
  /\ UNCHANGED adapters

\* The setTimeout callback of attemptReconnect
TimerFire ==
  /\ Quiet
  /\ timers > 0
  /\ \E fails \in BOOLEAN : ConnectBody(fails, timers - 1)
  /\ lastSend' = NoSend
  /\ UNCHANGED <<table, pc, pass, invoked, userDisconnected, closeIgnored>>
  /\ UNCHANGED adapters

Disconnect ==
  /\ Quiet
  /\ IF ws # NoHandle
     THEN /\ handles' = Release([handles EXCEPT ![ws] = CloseHandle(@)], ws)
          /\ ws' = NoHandle
     ELSE UNCHANGED conn
  /\ listeners' = TableAfterDisconnect(listeners)
  /\ subscribed' = EmptyTable
  /\ cleared' = TRUE
  /\ userDisconnected' = TRUE
  /\ lastSend' = NoSend
  /\ timers' = TimersAfterDisconnect(timers)
  /\ UNCHANGED <<reconnectAttempts, scheduled, pc, pass, invoked, closeIgnored>>
  /\ UNCHANGED adapters

On(e, cb, max) ==
  /\ Quiet
  /\ TotalSubs < max
  /\ OnEffect(e, cb)
  /\ lastSend' = NoSend
  /\ UNCHANGED <<conn, policy, pc, pass, invoked, userDisconnected, closeIgnored>>
  /\ UNCHANGED adapters

Off(e, cb) ==
  /\ Quiet
  /\ OffEffect(e, cb)
  /\ lastSend' = NoSend
  /\ UNCHANGED <<conn, policy, pc, pass, invoked, userDisconnected, closeIgnored>>
  /\ UNCHANGED adapters

Send(m) ==
  /\ Quiet
  /\ lastSend' =
       [called |-> TRUE, msg |-> m, wrote |-> SendWrites(ws, handles),
        wire |-> IF SendWrites(ws, handles) THEN <<JSONstringify(m)>> ELSE <<>>]
  /\ UNCHANGED <<conn, policy, table, pc, pass, invoked, userDisconnected, closeIgnored>>
  /\ UNCHANGED adapters

\* The handler has a try/catch around its parsing and its emit call.
Catches(handler) == handler = "onmessage"

\* ----------------------------------------------------------------- emit
\* emit(e, d) as called by handler: forEach fixes the array and its length
\* when it starts.
BeginPass(handler, e, d, f) ==
  /\ pc' = "dispatch"
  /\ pass' = [handler |-> handler, event |-> e, data |-> d,
              arr |-> listeners[e], idx |-> 1, len |-> Len(listeners[e]),
              shared |-> TRUE, atStart |-> listeners[e],
              offDuring |-> FALSE, cause |-> "none", caught |-> FALSE,
              raw |-> f.raw, frame |-> f]
  /\ invoked' = <<>>

Called(cb) == Append(invoked, [cb |-> cb, arg |-> pass.data])

\* emit() with a try/catch around each call: the pass goes on.
PcAfterThrowSwallowed(handler) == "dispatch"

\* Where control is after callback(data) has thrown inside forEach: emit has no
\* try/catch, the exception is on its way out of emit and of forEach
PcAfterThrow(handler) == "threw"

\* callback(data) returns without touching the service
CallReturn(cb) ==
  /\ invoked' = Called(cb)
  /\ pass' = [pass EXCEPT !.idx = @ + 1]
  /\ UNCHANGED <<pc, table>>

\* callback(data) throws: forEach is abandoned
CallThrow(cb) ==
  /\ invoked' = Called(cb)
  /\ pass' = [pass EXCEPT !.cause = "callback", !.caught = Catches(pass.handler)]
  /\ pc' = PcAfterThrow(pass.handler)
  /\ UNCHANGED table

\* callback(data) calls off(e, c) and returns (called for the event being
\* dispatched)
CallOff(cb, e, c) ==
  /\ invoked' = Called(cb)
  /\ OffEffect(e, c)
  /\ pass' = [pass EXCEPT
       !.idx = @ + 1,
       !.arr = IF e = pass.event /\ pass.shared THEN IteratedAfterOff(@, c) ELSE @,
       !.shared = @ /\ e # pass.event,
       !.offDuring = @ \/ e = pass.event]
  /\ UNCHANGED pc

\* callback(data) calls on(e, c) and returns: push() changes the array in
\* place, also when forEach is iterating it
CallOn(cb, e, c, max) ==
  /\ TotalSubs < max
  /\ invoked' = Called(cb)
  /\ OnEffect(e, c)
  /\ pass' = [pass EXCEPT
       !.idx = @ + 1,
       !.arr = IF e = pass.event /\ pass.shared THEN Append(@, c) ELSE @]
  /\ UNCHANGED pc

\* One iteration of listeners[event].forEach(callback => callback(data)).
\* reentrant: the subscribers may call on() and off() from inside the pass.
Invoke(max, reentrant) ==
  /\ pc = "dispatch"
  /\ pass.idx <= pass.len
  /\ IF pass.idx > Len(pass.arr)
     THEN /\ pass' = [pass EXCEPT !.idx = @ + 1]   \* forEach skips a missing index
          /\ UNCHANGED <<invoked, pc, table>>
     ELSE LET cb == pass.arr[pass.idx] IN
            \/ CallReturn(cb)
            \/ CallThrow(cb)
            \/ reentrant /\ \E c \in Callbacks : CallOff(cb, pass.event, c)
            \/ reentrant /\ \E c \in Callbacks : CallOn(cb, pass.event, c, max)
  /\ UNCHANGED <<conn, policy, userDisconnected, lastSend, closeIgnored>>
  /\ UNCHANGED adapters

\* forEach is done and emit returns; onclose goes on to attemptReconnect()
Return ==
  /\ pc = "dispatch"
  /\ pass.idx > pass.len
  /\ IF pass.handler = "onclose" THEN AttemptReconnect(timers) ELSE UNCHANGED policy
  /\ closeIgnored' =
       (closeIgnored \/ (pass.handler = "onclose" /\ timers' = timers))
  /\ pc' = "idle"
  /\ pass' = NoPass
  /\ invoked' = <<>>
  /\ UNCHANGED <<conn, table, userDisconnected, lastSend>>
  /\ UNCHANGED adapters

\* An exception leaves the handler: onmessage catches and logs it, the other
\* handlers let it reach the event loop.  The rest of the handler is skipped.
Unwind ==
  /\ pc = "threw"
  /\ pc' = "idle"
  /\ pass' = NoPass
  /\ invoked' = <<>>
  /\ UNCHANGED <<conn, policy, table, userDisconnected, lastSend, closeIgnored>>
  /\ UNCHANGED adapters

\* ------------------------------------------------------- transport events
\* ws.onopen
HandleOpen(h) ==
  /\ Quiet
  /\ handles[h] = "CONNECTING"
  /\ handles' = [handles EXCEPT ![h] = "OPEN"]
  /\ reconnectAttempts' = 0
  /\ scheduled' = <<>>
  /\ closeIgnored' = FALSE
  /\ BeginPass("onopen", "connected", "null", NoFrame)
  /\ lastSend' = NoSend
  /\ UNCHANGED <<ws, timers, table, userDisconnected>>
  /\ UNCHANGED adapters

\* ws.onmessage
HandleMessage(h, f) ==
  /\ Quiet
  /\ handles[h] = "OPEN"
  /\ IF FrameThrows(f)
     THEN /\ pc' = "threw"
          /\ pass' = [NoPass EXCEPT !.handler = "onmessage", !.cause = "parse",
                                    !.caught = Catches("onmessage"),
                                    !.raw = f.raw, !.frame = f]
          /\ invoked' = <<>>
     ELSE BeginPass("onmessage", RoutedKey(f), RoutedData(f), f)
  /\ lastSend' = NoSend
  /\ UNCHANGED <<conn, policy, table, userDisconnected, closeIgnored>>
  /\ UNCHANGED adapters

\* The closing handshake starts on the peer's side: readyState becomes CLOSING
BeginClose(h) ==
  /\ Quiet
  /\ handles[h] = "OPEN"
  /\ handles' = [handles EXCEPT ![h] = "CLOSING"]
  /\ lastSend' = NoSend
  /\ UNCHANGED <<ws, policy, table, pc, pass, invoked, userDisconnected, closeIgnored>>
  /\ UNCHANGED adapters

\* ws.onerror; the host fires close right after error, in the same task
HandleError(h) ==
  /\ Quiet
  /\ handles[h] \in {"CONNECTING", "OPEN", "CLOSING"}
  /\ RoomForTimer(timers)
  /\ handles' = [handles EXCEPT ![h] = "ERRORED"]
  /\ BeginPass("onerror", "error", "error", NoFrame)
  /\ lastSend' = NoSend
  /\ UNCHANGED <<ws, policy, table, userDisconnected, closeIgnored>>
  /\ UNCHANGED adapters

\* ws.onclose
HandleClose(h) ==
  /\ pc = "idle"
  /\ \/ handles[h] = "ERRORED"
     \/ Quiet /\ handles[h] \in {"CONNECTING", "OPEN", "CLOSING"}
  /\ RoomForTimer(timers)
  /\ handles' = [handles EXCEPT ![h] = IF h = ws THEN "CLOSED" ELSE "FREE"]
  /\ BeginPass("onclose", "disconnected", "null", NoFrame)
  /\ lastSend' = NoSend
  /\ UNCHANGED <<ws, policy, table, userDisconnected, closeIgnored>>
  /\ UNCHANGED adapters

Next ==
  \/ Connect
  \/ TimerFire
  \/ Disconnect
  \/ \E e \in Events, cb \in Callbacks : On(e, cb, MaxSubs)
  \/ \E e \in Events, cb \in Callbacks : Off(e, cb)
  \/ \E m \in Messages : Send(m)
  \/ \E h \in Slots : HandleOpen(h)
  \/ \E h \in Slots, f \in Frames : HandleMessage(h, f)
  \/ \E h \in Slots : BeginClose(h)
  \/ \E h \in Slots : HandleError(h)
  \/ \E h \in Slots : HandleClose(h)
  \/ Invoke(MaxSubs, FALSE)
  \/ Return
  \/ Unwind

Spec == Init /\ [][Next]_vars

\* The event router with a fuller table and subscribers that call on() and
\* off() from inside a pass, driven by connections that end by a close event
\* and whose reconnect timers have not expired yet.
RouterNext ==
  \/ Connect
  \/ Disconnect
  \/ \E e \in Events, cb \in Callbacks : On(e, cb, MaxRouterSubs)
  \/ \E e \in Events, cb \in Callbacks : Off(e, cb)
  \/ \E h \in Slots : HandleOpen(h)
  \/ \E h \in Slots, f \in Frames : HandleMessage(h, f)
  \/ \E h \in Slots : HandleClose(h)
  \/ Invoke(MaxRouterSubs, TRUE)
  \/ Return
  \/ Unwind

SpecRouter == Init /\ [][RouterNext]_vars

\* ---------------------------------------------------------------- adapters
\* useWebSocket(): each mounted instance shares the one exported service.
\* The two listeners an instance registers for itself
HandleConnectOf(a) == IF a = "a1" THEN "handleConnect1" ELSE "handleConnect2"

HandleDisconnectOf(a) == IF a = "a1" THEN "handleDisconnect1" ELSE "handleDisconnect2"

InternalCallbacks ==
  {HandleConnectOf(a) : a \in Adapters} \cup {HandleDisconnectOf(a) : a \in Adapters}

\* The instance whose isConnected ref the listener closes over
OwnerOf(cb) ==
  CHOOSE a \in Adapters : cb \in {HandleConnectOf(a), HandleDisconnectOf(a)}

\* handleConnect stores true, handleDisconnect stores false
FlagAfter(cb) == cb \in {HandleConnectOf(a) : a \in Adapters}

\* The effect: on('connected', handleConnect); on('disconnected', handleDisconnect)
ActivatedTable(tbl, a) ==
  [tbl EXCEPT !["connected"] = ListAfterOn(@, HandleConnectOf(a)),
              !["disconnected"] = ListAfterOn(@, HandleDisconnectOf(a))]

\* The cleanup: off('connected', handleConnect); off('disconnected', handleDisconnect)
OwnRemoved(tbl, a) ==
  [tbl EXCEPT !["connected"] = ListAfterOff(@, HandleConnectOf(a)),
              !["disconnected"] = ListAfterOff(@, HandleDisconnectOf(a))]

\* A cleanup that only removes the instance's own listeners.
DeactivatedTableOwnOnly(tbl, a) == OwnRemoved(tbl, a)

\* The cleanup: the two off() calls, then webSocketService.disconnect()
DeactivatedTable(tbl, a) == TableAfterDisconnect(OwnRemoved(tbl, a))

\* Entries of the table that were registered through subscribe()
UserSubs ==
  TotalLen([e \in EmitEvents |-> SelectSeq(listeners[e], LAMBDA x : x \in Callbacks)],
           EmitEvents)

\* The effect of useEffect runs: connect(), then the two on() calls.  The ref
\* is a new one (false) when the instance is new, and the old one when the
\* effect of a live instance runs again.
Activate(a) ==
  /\ Quiet
  /\ a \notin active
  /\ \E fails \in BOOLEAN : ConnectBody(fails, timers)
  /\ listeners' = ActivatedTable(listeners, a)
  /\ subscribed' = ActivatedTable(subscribed, a)
  /\ cleared' = FALSE
  /\ userDisconnected' = FALSE
  /\ active' = active \cup {a}
  /\ \E fresh \in BOOLEAN :
       isConnected' = IF fresh THEN [isConnected EXCEPT ![a] = FALSE] ELSE isConnected
  /\ stranded' = stranded \ {a}
  /\ lastSend' = NoSend
  /\ UNCHANGED <<pc, pass, invoked, closeIgnored>>

\* The cleanup of useEffect runs: the two off() calls, then disconnect()
Deactivate(a) ==
  /\ Quiet
  /\ a \in active
  /\ IF ws # NoHandle
     THEN /\ handles' = Release([handles EXCEPT ![ws] = CloseHandle(@)], ws)
          /\ ws' = NoHandle
     ELSE UNCHANGED conn
  /\ listeners' = DeactivatedTable(listeners, a)
  /\ subscribed' = EmptyTable
  /\ cleared' = TRUE
  /\ userDisconnected' = TRUE
  /\ timers' = TimersAfterDisconnect(timers)
  /\ active' = active \ {a}
  /\ stranded' = active \ {a}
  /\ lastSend' = NoSend
  /\ UNCHANGED <<reconnectAttempts, scheduled, pc, pass, invoked, closeIgnored, isConnected>>

\* subscribe(event, callback) of an active instance
Subscribe(a, e, cb) ==
  /\ Quiet
  /\ a \in active
  /\ UserSubs < MaxSubs
  /\ OnEffect(e, cb)
  /\ lastSend' = NoSend
  /\ UNCHANGED <<conn, policy, pc, pass, invoked, userDisconnected, closeIgnored>>
  /\ UNCHANGED adapters

\* unsubscribe(event, callback) of an active instance
Unsubscribe(a, e, cb) ==
  /\ Quiet
  /\ a \in active
  /\ OffEffect(e, cb)
  /\ lastSend' = NoSend
  /\ UNCHANGED <<conn, policy, pc, pass, invoked, userDisconnected, closeIgnored>>
  /\ UNCHANGED adapters

\* One iteration of forEach where the table holds the instances' listeners:
\* handleConnect / handleDisconnect store into their instance's ref and
\* return; a callback given to subscribe() returns or throws.
AdapterInvoke ==
  /\ pc = "dispatch"
  /\ pass.idx <= pass.len
  /\ pass.idx <= Len(pass.arr)
  /\ LET cb == pass.arr[pass.idx] IN
       IF cb \in InternalCallbacks
       THEN /\ invoked' = Called(cb)
            /\ pass' = [pass EXCEPT !.idx = @ + 1]
            /\ isConnected' = [isConnected EXCEPT ![OwnerOf(cb)] = FlagAfter(cb)]
            /\ UNCHANGED <<pc, table>>
       ELSE /\ CallReturn(cb) \/ CallThrow(cb)
            /\ UNCHANGED isConnected
  /\ UNCHANGED <<conn, policy, userDisconnected, lastSend, closeIgnored, active, stranded>>

\* The service as the adapters drive it: instances mount and unmount and
\* subscribe to an application event, the transport delivers open, message
\* and close events; the reconnect timers have not expired yet.
AdapterNext ==
  \/ \E a \in Adapters : Activate(a)
  \/ \E a \in Adapters : Deactivate(a)
  \/ \E a \in Adapters, cb \in Callbacks : Subscribe(a, "task_created", cb)
  \/ \E a \in Adapters, cb \in Callbacks : Unsubscribe(a, "task_created", cb)
  \/ \E h \in Slots : HandleOpen(h)
  \/ \E h \in Slots, f \in Frames : HandleMessage(h, f)
  \/ \E h \in Slots : HandleClose(h)
  \/ AdapterInvoke
  \/ Return
  \/ Unwind

SpecAdapter == Init /\ [][AdapterNext]_vars

\* ================================================================ claims
Tagged(list, d) == [i \in 1..Len(list) |-> [cb |-> list[i], arg |-> d]]

manager == <<ws, handles, reconnectAttempts, timers, listeners>>

\* C1: after disconnect(), and until connect() is called from outside, no
\* step schedules a reconnect timer; in particular the close event of the
\* handle that disconnect() closed schedules none.
C1_NoReconnectAfterDisconnect ==
  [][(userDisconnected /\ userDisconnected') => timers' <= timers]_vars

\* C2: at most one transport handle is live (CONNECTING or OPEN, its
\* handlers attached) in every reachable state.
C2_AtMostOneLiveHandle == Cardinality(Live) <= 1

\* C3: a close event handled while reconnectAttempts < 5 schedules exactly
\* one reconnect and counts it; while reconnectAttempts = 5 no step schedules
\* a timer, a handled close changes neither the handle nor the counter, and
\* only an open event takes the counter off 5; never more than 5 reconnects
\* are scheduled without an open in between.
C3_NoSixthReconnect ==
  [][/\ Len(scheduled') <= 5
     /\ reconnectAttempts >= 5
          => /\ timers' <= timers
             /\ reconnectAttempts' = 5 \/ pass'.handler = "onopen"
     /\ (pc = "dispatch" /\ pass.handler = "onclose" /\ pc' = "idle")
          => IF reconnectAttempts < 5
             THEN /\ timers' = timers + 1
                  /\ reconnectAttempts' = reconnectAttempts + 1
                  /\ Len(scheduled') = Len(scheduled) + 1
             ELSE UNCHANGED <<ws, handles, timers, reconnectAttempts, scheduled>>
    ]_vars

\* The sixth close in a row has been handled: five reconnects were scheduled
\* and have fired, and nothing is pending.
C3_Witness ==
  /\ closeIgnored
  /\ pc = "idle"
  /\ reconnectAttempts = 5
  /\ Len(scheduled) = 5
  /\ timers = 0
  /\ Live = {}

\* C4: while an open event is handled the counter is 0, and the k-th timer
\* scheduled since the last open (k = 1..5) has delay 1000 * k.
C4_LinearBackoff ==
  /\ pass.handler = "onopen" => reconnectAttempts = 0 /\ scheduled = <<>>
  /\ Len(scheduled) = reconnectAttempts
  /\ Len(scheduled) <= 5
  /\ \A k \in 1..Len(scheduled) : scheduled[k] = 1000 * k

C4_Witness == Len(scheduled) = 5 /\ scheduled[1] = 1000 /\ scheduled[5] = 5000

\* C5: the table holds, for every event, the list kept by appending on each
\* on() and removing all identical entries on each off(); a pass of emit(e, d)
\* that has run to its end has called exactly the callbacks e had when the
\* pass began, once each, in that order, each with d.
C5_EmitCallsSubscribers ==
  /\ listeners = subscribed
  /\ (pc = "dispatch" /\ pass.idx > pass.len)
       => invoked = Tagged(pass.atStart, pass.data)

\* A finished pass over one event while another event has a different
\* subscriber, which was not called.
C5_Witness ==
  /\ pc = "dispatch"
  /\ pass.idx > pass.len
  /\ pass.event = "task_created"
  /\ invoked = <<[cb |-> "cb1", arg |-> "d1"]>>
  /\ listeners["connected"] = <<"cb2">>

\* C6: once a subscriber has called off() for the event being dispatched, the
\* pass still iterates the list it began with: the callbacks called so far are
\* its first idx - 1 entries, once each and in order, and the entries still
\* to be called are unchanged.
C6_SnapshotDispatch ==
  (pc = "dispatch" /\ pass.offDuring)
    => /\ Len(pass.arr) >= pass.len
       /\ SubSeq(pass.arr, 1, pass.len) = pass.atStart
       /\ invoked = Tagged(SubSeq(pass.atStart, 1, pass.idx - 1), pass.data)

\* Two subscribers removed each other during the pass; both were called.
C6_Witness ==
  /\ pc = "dispatch"
  /\ pass.offDuring
  /\ pass.idx > pass.len
  /\ pass.atStart = <<"cb1", "cb2">>
  /\ Len(invoked) = 2
  /\ listeners[pass.event] = <<>>

\* C7: a call of send(m) writes the serialized m if and only if this.ws is a
\* handle in state OPEN, and otherwise writes nothing; it changes no manager
\* state, and no other operation writes to the transport.
C7_SendOnlyWhenOpen ==
  [][/\ (lastSend'.called /\ lastSend' # lastSend)
          => /\ UNCHANGED manager
             /\ lastSend'.wire =
                  IF ws # NoHandle /\ handles[ws] = "OPEN"
                  THEN <<[json |-> lastSend'.msg]>> ELSE <<>>
     /\ ~lastSend'.called => lastSend'.wire = <<>>
    ]_vars

\* send() was called while the current handle was still CONNECTING.
C7_Witness ==
  /\ lastSend.called
  /\ lastSend.wire = <<>>
  /\ ws # NoHandle
  /\ handles[ws] = "CONNECTING"

\* C8: after disconnect() and until the next on(), every list of the table
\* is empty and a running emit calls no callback.
C8_DisconnectClearsTable ==
  cleared
    => /\ \A e \in EmitEvents : listeners[e] = <<>>
       /\ pc # "idle" => pass.len = 0 /\ invoked = <<>>

\* The close event of a handle closed by disconnect() is being dispatched.
C8_Witness ==
  /\ cleared
  /\ userDisconnected
  /\ pc = "dispatch"
  /\ pass.handler = "onclose"
  /\ pass.idx > pass.len

\* C9: a frame whose parsing throws calls no subscriber, ends in the catch
\* block of the handler, and leaves handle, counter, timers and table as they
\* were, the handle still OPEN.
C9_MalformedFrameDropped ==
  [][/\ pass'.raw \in {"garbage", "null"}
          => /\ pc' = "threw"
             /\ pass'.caught
             /\ invoked' = <<>>
             /\ UNCHANGED manager
             /\ \E h \in Slots : handles'[h] = "OPEN"
     /\ pass.raw \in {"garbage", "null"}
          => /\ pc' = "idle"
             /\ UNCHANGED manager
    ]_vars

\* A malformed frame is in the catch block while a subscriber exists.
C9_Witness ==
  /\ pc = "threw"
  /\ pass.raw = "garbage"
  /\ pass.cause = "parse"
  /\ TotalSubs > 0

\* C10: the reconnect policy only runs as the end of a task that has emitted
\* `disconnected`, and every task that handled a close event ends by running
\* the policy.
C10_EveryEndEmitsAndReconnects ==
  [][/\ timers' > timers
          => pc = "dispatch" /\ pass.event = "disconnected"
     /\ (pc # "idle" /\ pc' = "idle" /\ pass.handler = "onclose"
           /\ reconnectAttempts < 5)
          => timers' > timers
    ]_vars

\* C11: while a frame {type: T, data: D} received on an open handle is being
\* handled, it is dispatched under T with D; the pass starts from the list T
\* has in the table; every call made so far is a call of the next entry of
\* that list with D, so no callback of another event is called; and when the
\* pass has run to its end every entry of the list has been called once.
C11_FrameReachesItsSubscribers ==
  (pc # "idle" /\ pass.handler = "onmessage" /\ pass.frame.type \in Events)
    => /\ \E h \in Slots : handles[h] = "OPEN"
       /\ pass.event = pass.frame.type
       /\ pass.data = pass.frame.data
       /\ (pc = "dispatch" /\ invoked = <<>> /\ pass.idx = 1)
            => pass.atStart = listeners[pass.frame.type]
       /\ Len(invoked) <= Len(pass.atStart)
       /\ \A i \in 1..Len(invoked) :
            invoked[i] = [cb |-> pass.atStart[i], arg |-> pass.frame.data]
       /\ (pc = "dispatch" /\ pass.idx > pass.len)
            => Len(invoked) = Len(pass.atStart)

\* A task_created frame has been delivered to its subscriber while the
\* current handle is open; a subscriber of another event was not called.
C11_Witness ==
  /\ pc = "dispatch"
  /\ pass.handler = "onmessage"
  /\ pass.frame = [raw |-> "object", type |-> "task_created", data |-> "d1"]
  /\ pass.idx > pass.len
  /\ ws # NoHandle
  /\ handles[ws] = "OPEN"
  /\ invoked = <<[cb |-> "cb2", arg |-> "d1"]>>
  /\ listeners["task_created"] = <<"cb2">>
  /\ listeners["disconnected"] = <<"cb1">>

\* C12: when the cleanup of one adapter runs, the manager's handle is closed
\* and dropped and every list of the table becomes empty, whatever the other
\* adapter had registered; from then on, for as long as the other adapter
\* stays active, its two listeners are in no list and are called by no pass,
\* its flag never changes, and until somebody subscribes again no pass calls
\* anything.
C12_TeardownStrandsOtherAdapter ==
  [][/\ (\E a \in active : a \notin active')
          => /\ ws' = NoHandle
             /\ ws # NoHandle => handles'[ws] \notin {"CONNECTING", "OPEN"}
             /\ \A e \in EmitEvents : listeners'[e] = <<>>
             /\ stranded' = active'
     /\ \A b \in stranded' :
          /\ b \in active'
          /\ \A e \in EmitEvents : \A i \in 1..Len(listeners'[e]) :
               listeners'[e][i] \notin {HandleConnectOf(b), HandleDisconnectOf(b)}
          /\ \A i \in 1..Len(invoked') :
               invoked'[i].cb \notin {HandleConnectOf(b), HandleDisconnectOf(b)}
          /\ b \in stranded => isConnected'[b] = isConnected[b]
     /\ (stranded' # {} /\ cleared') => invoked' = <<>>
    ]_vars

\* Adapter a1 was deactivated while a2 was active and had seen its handle
\* open; a handle that a1's connect() had superseded opens afterwards and its
\* `connected` event reaches nobody.
C12_Witness ==
  /\ active = {"a2"}
  /\ stranded = {"a2"}
  /\ isConnected["a2"]
  /\ ws = NoHandle
  /\ pc = "dispatch"
  /\ pass.handler = "onopen"
  /\ pass.len = 0

\* C13: disconnect() leaves the pending reconnect timers pending, and a timer
\* that fires after disconnect() runs connect() as at any other time: the
\* manager holds a new handle in state CONNECTING although no connect() was
\* called from outside (or the constructor threw: a new timer is pending, or
\* the counter is at 5 and nothing changes).
C13_TimerSurvivesDisconnect ==
  [][/\ (cleared' /\ userDisconnected' /\ ws' = NoHandle /\ pc' = "idle"
           /\ (~cleared \/ ~userDisconnected \/ ws # NoHandle))
          => timers' = timers
     /\ (userDisconnected /\ timers' < timers)
          => /\ timers' = timers - 1
             /\ userDisconnected'
             /\ \/ ws' # NoHandle /\ handles'[ws'] = "CONNECTING"
                \/ reconnectAttempts = 5 /\ UNCHANGED <<ws, handles>>
    ]_vars

\* The constructor threw, disconnect() was called while the timer of that
\* failure was pending, and the timer has fired: a handle is connecting and
\* nothing is pending any more.
C13_Witness ==
  /\ userDisconnected
  /\ cleared
  /\ ws # NoHandle
  /\ handles[ws] = "CONNECTING"
  /\ \A s \in Slots \ {ws} : handles[s] = "FREE"
  /\ timers = 0
  /\ reconnectAttempts = 1
  /\ Len(scheduled) = 1

\* C14: once a subscriber has thrown during a pass, the pass is over: control
\* is on its way out of emit, the subscribers before the thrower and the
\* thrower itself have been called once each, in order, the subscribers after
\* it have not been called, and only the try/catch of onmessage takes the
\* exception; from the other handlers it reaches the event loop.
C14_ThrowAbortsPass ==
  pass.cause = "callback"
    => /\ pc = "threw"
       /\ pass.idx <= pass.len
       /\ Len(invoked) = pass.idx
       /\ \A i \in 1..Len(invoked) :
            invoked[i] = [cb |-> pass.arr[i], arg |-> pass.data]
       /\ pass.caught <=> pass.handler = "onmessage"

\* The first of the two subscribers of `disconnected` threw while a close
\* event was dispatched: the second one was not called, nothing catches.
C14_Witness ==
  /\ pc = "threw"
  /\ pass.cause = "callback"
  /\ pass.handler = "onclose"
  /\ pass.atStart = <<"cb1", "cb2">>
  /\ invoked = <<[cb |-> "cb1", arg |-> "null"]>>
  /\ ~pass.caught

\* C15: the counter stays within 0..5 and equals the number of reconnect
\* timers scheduled since the last handled open event (or since the start).
C15_CounterCountsTimers ==
  /\ reconnectAttempts \in 0..maxReconnectAttempts
  /\ reconnectAttempts = Len(scheduled)

\* Two reconnects were scheduled before any timer fired, the second one by
\* the close of the current handle: two timers are pending and the counter
\* is 2.
C15_Witness ==
  /\ timers = 2
  /\ reconnectAttempts = 2
  /\ Len(scheduled) = 2
  /\ closeIgnored = FALSE
  /\ ws # NoHandle
  /\ handles[ws] = "CLOSED"
  /\ pc = "idle"

\* C16: every task that handled a close event while reconnectAttempts < 5
\* ends with the counter incremented and one more timer pending, whatever
\* the subscribers of `disconnected` did.
C16_CloseAlwaysReconnects ==
  [][(pc # "idle" /\ pc' = "idle" /\ pass.handler = "onclose"
        /\ reconnectAttempts < maxReconnectAttempts)
       => /\ reconnectAttempts' = reconnectAttempts + 1
          /\ timers' = timers + 1
    ]_vars

\* C17: whenever no handler is running, the flag of every active adapter is
\* true exactly if the manager's current handle is OPEN.
C17_FlagTracksCurrentHandle ==
  pc = "idle"
    => \A a \in active : isConnected[a] <=> (ws # NoHandle /\ handles[ws] = "OPEN")

====
